---- MODULE Spec2Model ----
(***************************************************************************)
(* A model of src/brainfuck.py: the Brainfuck interpreter run_brainfuck,   *)
(* the generator text_to_brainfuck, the hex transcoder brainfuck_to_hex /  *)
(* hex_to_brainfuck and the facade encode_to_hex / decode_from_hex.        *)
(*                                                                         *)
(* A Python str is a sequence of code points (integers).  Python indices   *)
(* are 0-based; the model keeps Python's indices in its variables and      *)
(* reads position k of a sequence s as s[k + 1].                           *)
(***************************************************************************)
EXTENDS Integers, Sequences, FiniteSets, TLC

(* ------------------------------------------------------------------ *)
(* Bounds of the model                                                 *)
(* ------------------------------------------------------------------ *)
MaxCodeLen == 4
MaxInpLen == 2
MaxTape == 5
MaxOut == 4
MaxTextLen == 2
MaxHexLen == 4

(* ------------------------------------------------------------------ *)
(* Characters                                                          *)
(* ------------------------------------------------------------------ *)
PLUS == 43
COMMA == 44
MINUS == 45
DOT == 46
LT == 60
GT == 62
LBRACKET == 91
RBRACKET == 93
LETTER_A == 97

BF_COMMANDS == {PLUS, MINUS, LT, GT, LBRACKET, RBRACKET, DOT, COMMA}

(* Sequences over S of length at most n. *)
SeqsUpTo(S, n) == UNION {[1..k -> S] : k \in 0..n}

(* s[k] with Python's 0-based index. *)
At(s, k) == s[k + 1]

InsertFront_ReplacesHead(s, x) == <<x>> \o Tail(s)

(* list.insert(0, x) *)
InsertFront(s, x) == <<x>> \o s

(* A dict as a function on its key set; d[k] = v. *)
EmptyDict == [x \in {} |-> 0]
DictSet(d, k, v) == [x \in (DOMAIN d) \cup {k} |-> IF x = k THEN v ELSE d[x]]

And0xFF_NoWrap(x) == x

(* x & 0xFF for an integer x (Python's & on a negative int is two's
   complement: -1 & 0xFF = 255). *)
And0xFF(x) == x % 256

(* ------------------------------------------------------------------ *)
(* Errors                                                              *)
(* ------------------------------------------------------------------ *)
NoError == [kind |-> "none", pos |-> -1]
Raise(kind, pos) == [kind |-> kind, pos |-> pos]

(* ------------------------------------------------------------------ *)
(* Results of the functions that return a str or raise                 *)
(* ------------------------------------------------------------------ *)
Ok(v) == [ok |-> TRUE, val |-> v, err |-> "none"]
Fail(kind) == [ok |-> FALSE, val |-> <<>>, err |-> kind]

(* c * n for a one-character str c *)
Repeat(c, n) == [k \in 1..n |-> c]

(* ------------------------------------------------------------------ *)
(* text_to_brainfuck                                                   *)
(* ------------------------------------------------------------------ *)
RECURSIVE TextLoop_CurrNeverUpdated(_, _)
TextLoop_CurrNeverUpdated(text, curr) ==
    IF text = <<>> THEN <<>>
    ELSE LET target == Head(text)
             delta == target - curr
             moves == IF delta > 0 THEN Repeat(PLUS, delta)
                      ELSE IF delta < 0 THEN Repeat(MINUS, 0 - delta)
                      ELSE <<>>
         IN moves \o <<DOT>> \o TextLoop_CurrNeverUpdated(Tail(text), curr)

RECURSIVE TextLoop_DotOnlyOnChange(_, _)
TextLoop_DotOnlyOnChange(text, curr) ==
    IF text = <<>> THEN <<>>
    ELSE LET target == Head(text)
             delta == target - curr
             moves == IF delta > 0 THEN Repeat(PLUS, delta) \o <<DOT>>
                      ELSE IF delta < 0 THEN Repeat(MINUS, 0 - delta) \o <<DOT>>
                      ELSE <<>>
         IN moves \o TextLoop_DotOnlyOnChange(Tail(text), target)

(* Lines 18-26: the loop over the characters of text, entered with the
   value curr; ord(ch) is the code point. *)
RECURSIVE TextLoop(_, _)
TextLoop(text, curr) ==
    IF text = <<>> THEN <<>>
    ELSE LET target == Head(text)
             delta == target - curr
             moves == IF delta > 0 THEN Repeat(PLUS, delta)
                      ELSE IF delta < 0 THEN Repeat(MINUS, 0 - delta)
                      ELSE <<>>
         IN moves \o <<DOT>> \o TextLoop(Tail(text), target)

(* Lines 16-27. *)
text_to_brainfuck(text) == TextLoop(text, 0)

(* ------------------------------------------------------------------ *)
(* brainfuck_to_hex, hex_to_brainfuck                                  *)
(* ------------------------------------------------------------------ *)

(* str.encode("ascii") and bytes.decode("ascii"): the code points are the
   bytes; a value above 127 raises. *)
IsAscii(s) == \A k \in 1..Len(s) : s[k] <= 127

HexDigit_UpperCase(n) == IF n < 10 THEN 48 + n ELSE 55 + n

(* The lowercase hex digit of n in 0..15: '0' is 48, 'a' is 97. *)
HexDigit(n) == IF n < 10 THEN 48 + n ELSE 87 + n

HexOfByte_NibblesSwapped(b) == <<HexDigit(b % 16), HexDigit(b \div 16)>>

(* bytes.hex() of one byte: two digits. *)
HexOfByte(b) == <<HexDigit(b \div 16), HexDigit(b % 16)>>

(* bytes.hex(): digit 2k-1 and digit 2k are those of byte k. *)
BytesHex(bs) ==
    [k \in 1..(2 * Len(bs)) |-> HexOfByte(bs[(k + 1) \div 2])[2 - (k % 2)]]

(* Line 32: bf_code.encode("ascii").hex() *)
brainfuck_to_hex(bf_code) ==
    IF IsAscii(bf_code) THEN Ok(BytesHex(bf_code))
    ELSE Fail("UnicodeEncodeError")

DigitValue_LowerCaseOnly(c) ==
    IF c \in 48..57 THEN c - 48
    ELSE IF c \in 97..102 THEN c - 87
    ELSE 37

(* The value of a hex digit character, 37 for any other character:
   '0'..'9', 'a'..'f', 'A'..'F'. *)
DigitValue(c) ==
    IF c \in 48..57 THEN c - 48
    ELSE IF c \in 97..102 THEN c - 87
    ELSE IF c \in 65..70 THEN c - 55
    ELSE 37

(* The ASCII whitespace bytes.fromhex skips: \t \n \v \f \r and space. *)
IsSpace(c) == c \in {9, 10, 11, 12, 13, 32}

(* The first index from k on that holds no whitespace, Len(s) + 1 when
   there is none. *)
RECURSIVE SkipSpaces(_, _)
SkipSpaces(s, k) ==
    IF k <= Len(s) /\ IsSpace(s[k]) THEN SkipSpaces(s, k + 1) ELSE k

(* The loop of bytes.fromhex(s) from index k (1-based) on, acc the bytes
   so far, for at most n iterations: whitespace is skipped before each
   pair and at the end, then two hex digits are read; anything else
   raises ValueError.  `more` says the loop was left after n iterations
   with the string not yet at its end. *)
RECURSIVE FromHexAt(_, _, _, _)
FromHexAt(s, k, acc, n) ==
    LET j == SkipSpaces(s, k) IN
    IF j > Len(s) THEN [more |-> FALSE, k |-> j, res |-> Ok(acc)]
    ELSE IF DigitValue(s[j]) >= 16 \/ j + 1 > Len(s)
            \/ DigitValue(s[j + 1]) >= 16
        THEN [more |-> FALSE, k |-> j, res |-> Fail("ValueError")]
    ELSE LET b == DigitValue(s[j]) * 16 + DigitValue(s[j + 1]) IN
         IF n = 1 THEN [more |-> TRUE, k |-> j + 2, res |-> Ok(Append(acc, b))]
         ELSE FromHexAt(s, j + 2, Append(acc, b), n - 1)

(* The same loop run to its end, 32 iterations at a time (this only keeps
   the depth of evaluation small). *)
RECURSIVE FromHexLoop(_, _, _)
FromHexLoop(s, k, acc) ==
    LET r == FromHexAt(s, k, acc, 32) IN
    IF r.more THEN FromHexLoop(s, r.k, r.res.val) ELSE r.res

(* bytes.fromhex(s); a str with a non-ASCII character raises ValueError. *)
BytesFromHex(s) == IF IsAscii(s) THEN FromHexLoop(s, 1, <<>>) ELSE Fail("ValueError")

(* Line 37: bytes.fromhex(hex_str).decode("ascii") *)
hex_to_brainfuck(hex_str) ==
    LET b == BytesFromHex(hex_str) IN
    IF ~b.ok THEN b
    ELSE IF IsAscii(b.val) THEN Ok(b.val)
    ELSE Fail("UnicodeDecodeError")

(* Lines 103-104. *)
encode_to_hex(text) == brainfuck_to_hex(text_to_brainfuck(text))

(* ------------------------------------------------------------------ *)
(* run_brainfuck                                                       *)
(* ------------------------------------------------------------------ *)

Filter_KeepAll(s) == s

(* Line 51: [c for c in code if c in BF_COMMANDS] *)
Filter(s) == SelectSeq(s, LAMBDA c : c \in BF_COMMANDS)

(* Line 68: inp.encode("latin1") gives one byte per character, the code
   point itself, and raises UnicodeEncodeError for a code point above 255. *)
Latin1Ok(s) == \A k \in 1..Len(s) : s[k] <= 255
Latin1Encode(s) == s

(* The frame of a call of run_brainfuck(code, inp) before its first
   statement: the arguments are bound, no local exists yet.  A local that
   does not exist yet is shown as the empty value of its type, an index as
   -1, and `created` names the locals bound so far; `ran` says whether an
   iteration of the execution loop has been taken. *)
Call(code, inp) ==
    [phase |-> "call", code |-> code, inp |-> inp,
     created |-> {},
     jumps |-> EmptyDict, stack |-> <<>>, filtered |-> <<>>, i |-> -1,
     tape |-> <<>>, ptr |-> -1, pc |-> -1, out_chars |-> <<>>, in_buf |-> <<>>,
     ran |-> FALSE, err |-> NoError, result |-> <<>>]

(* No call of run_brainfuck is in progress. *)
NoCall == [Call(<<>>, <<>>) EXCEPT !.phase = "idle"]

(* Lines 49-51: jumps = {}, stack = [], filtered = [...]. *)
Enter(m) ==
    [m EXCEPT !.phase = "scan",
              !.created = {"jumps", "stack", "filtered"},
              !.jumps = EmptyDict, !.stack = <<>>,
              !.filtered = Filter(m.code), !.i = 0]

(* Lines 53-54: stack.append(i). *)
ScanOpen(m) == [m EXCEPT !.stack = Append(m.stack, m.i)]

ScanClose_OneBasedPosition(m) ==
    IF m.stack = <<>> THEN
        [m EXCEPT !.phase = "raised", !.err = Raise("UnmatchedClose", m.i + 1)]
    ELSE
        LET j == m.stack[Len(m.stack)] IN
        [m EXCEPT !.stack = SubSeq(m.stack, 1, Len(m.stack) - 1),
                  !.jumps = DictSet(DictSet(m.jumps, m.i, j), j, m.i)]

ScanClose_PopsBottom(m) ==
    IF m.stack = <<>> THEN
        [m EXCEPT !.phase = "raised", !.err = Raise("UnmatchedClose", m.i)]
    ELSE
        LET j == m.stack[1] IN
        [m EXCEPT !.stack = Tail(m.stack),
                  !.jumps = DictSet(DictSet(m.jumps, m.i, j), j, m.i)]

(* Lines 55-60: raise on an empty stack, else pop and record the pair. *)
ScanClose(m) ==
    IF m.stack = <<>> THEN
        [m EXCEPT !.phase = "raised", !.err = Raise("UnmatchedClose", m.i)]
    ELSE
        LET j == m.stack[Len(m.stack)] IN
        [m EXCEPT !.stack = SubSeq(m.stack, 1, Len(m.stack) - 1),
                  !.jumps = DictSet(DictSet(m.jumps, m.i, j), j, m.i)]

(* Lines 52-60: one iteration of the bracket scan, at index i; a raise
   leaves the loop, otherwise enumerate moves on to i + 1. *)
ScanIter(m) ==
    LET c == At(m.filtered, m.i)
        n == IF c = LBRACKET THEN ScanOpen(m)
             ELSE IF c = RBRACKET THEN ScanClose(m)
             ELSE m
    IN IF n.phase = "raised" THEN n ELSE [n EXCEPT !.i = m.i + 1]

(* Lines 64-67: tape = [0], ptr = 0, pc = 0, out_chars = []. *)
CreateTape(m) ==
    [m EXCEPT !.created = m.created \cup {"tape", "ptr", "pc", "out_chars"},
              !.tape = <<0>>, !.ptr = 0, !.pc = 0, !.out_chars = <<>>]

RaiseUnmatchedOpen_Bottom(m) ==
    [m EXCEPT !.phase = "raised", !.err = Raise("UnmatchedOpen", m.stack[1])]

RaiseUnmatchedOpen_AfterCreate(m) ==
    [CreateTape(m) EXCEPT !.phase = "raised",
                          !.err = Raise("UnmatchedOpen", m.stack[Len(m.stack)])]

(* Line 62: raise ValueError(... stack[-1]). *)
RaiseUnmatchedOpen(m) ==
    [m EXCEPT !.phase = "raised",
              !.err = Raise("UnmatchedOpen", m.stack[Len(m.stack)])]

(* Line 68: in_buf = list(inp.encode("latin1")). *)
CreateInBuf(m) ==
    IF Latin1Ok(m.inp)
    THEN [m EXCEPT !.phase = "exec",
                   !.created = m.created \cup {"in_buf"},
                   !.in_buf = Latin1Encode(m.inp)]
    ELSE [m EXCEPT !.phase = "raised",
                   !.err = Raise("UnicodeEncodeError", -1)]

(* Lines 61-68: the check after the scan, then the execution state. *)
ScanDone(m) ==
    IF m.stack # <<>> THEN RaiseUnmatchedOpen(m)
    ELSE CreateInBuf(CreateTape(m))

(* tape[ptr] = v *)
SetCell(m, v) == [m EXCEPT !.tape[m.ptr + 1] = v]

MoveRight_NoGrow(m) == [m EXCEPT !.ptr = m.ptr + 1]

(* Lines 72-75: '>' *)
MoveRight(m) ==
    LET p == m.ptr + 1 IN
    [m EXCEPT !.ptr = p,
              !.tape = IF p = Len(m.tape) THEN Append(m.tape, 0) ELSE m.tape]

MoveLeft_AppendAtEnd(m) ==
    IF m.ptr = 0
    THEN [m EXCEPT !.tape = Append(m.tape, 0)]
    ELSE [m EXCEPT !.ptr = m.ptr - 1]

(* Lines 76-81: '<' *)
MoveLeft(m) ==
    IF m.ptr = 0
    THEN [m EXCEPT !.tape = InsertFront(m.tape, 0)]
    ELSE [m EXCEPT !.ptr = m.ptr - 1]

(* Lines 82-83: '+' *)
Increment(m) == SetCell(m, And0xFF(At(m.tape, m.ptr) + 1))

(* Lines 84-85: '-' *)
Decrement(m) == SetCell(m, And0xFF(At(m.tape, m.ptr) - 1))

Output_Prepend(m) == [m EXCEPT !.out_chars = <<At(m.tape, m.ptr)>> \o m.out_chars]

(* Lines 86-87: '.' ; chr(v) is the character with code point v. *)
Output(m) == [m EXCEPT !.out_chars = Append(m.out_chars, At(m.tape, m.ptr))]

Input_PopLast(m) ==
    IF m.in_buf # <<>>
    THEN [SetCell(m, m.in_buf[Len(m.in_buf)])
             EXCEPT !.in_buf = SubSeq(m.in_buf, 1, Len(m.in_buf) - 1)]
    ELSE SetCell(m, 0)

(* Lines 88-89: ',' ; in_buf.pop(0) if in_buf else 0. *)
Input(m) ==
    IF m.in_buf # <<>>
    THEN [SetCell(m, Head(m.in_buf)) EXCEPT !.in_buf = Tail(m.in_buf)]
    ELSE SetCell(m, 0)

(* Lines 90-92: '[' *)
JumpIfZero(m) ==
    IF At(m.tape, m.ptr) = 0 THEN [m EXCEPT !.pc = m.jumps[m.pc]] ELSE m

JumpIfNonzero_FallsThrough(m) == m

JumpIfNonzero_ToOpen(m) ==
    IF At(m.tape, m.ptr) # 0 THEN [m EXCEPT !.pc = m.jumps[m.pc] - 1] ELSE m

(* Lines 93-95: ']' *)
JumpIfNonzero(m) ==
    IF At(m.tape, m.ptr) # 0 THEN [m EXCEPT !.pc = m.jumps[m.pc]] ELSE m

ExecIter_AdvanceByTwo(m) ==
    LET c == At(m.filtered, m.pc)
        n == CASE c = GT -> MoveRight(m)
               [] c = LT -> MoveLeft(m)
               [] c = PLUS -> Increment(m)
               [] c = MINUS -> Decrement(m)
               [] c = DOT -> Output(m)
               [] c = COMMA -> Input(m)
               [] c = LBRACKET -> JumpIfZero(m)
               [] c = RBRACKET -> JumpIfNonzero(m)
               [] OTHER -> m
    IN [n EXCEPT !.pc = n.pc + 2, !.ran = TRUE]

(* Lines 71-96: one iteration of the while loop, entered with
   pc < len(filtered); a character that matches no branch only advances
   pc. *)
ExecIter(m) ==
    LET c == At(m.filtered, m.pc)
        n == CASE c = GT -> MoveRight(m)
               [] c = LT -> MoveLeft(m)
               [] c = PLUS -> Increment(m)
               [] c = MINUS -> Decrement(m)
               [] c = DOT -> Output(m)
               [] c = COMMA -> Input(m)
               [] c = LBRACKET -> JumpIfZero(m)
               [] c = RBRACKET -> JumpIfNonzero(m)
               [] OTHER -> m
    IN [n EXCEPT !.pc = n.pc + 1, !.ran = TRUE]

(* Line 98: return "".join(out_chars). *)
Finish(m) == [m EXCEPT !.phase = "returned", !.result = m.out_chars]

(* The statement a frame executes next, applied to it; a frame that has
   returned or raised stays as it is. *)
RunStep(x) ==
    CASE x.phase = "call" -> Enter(x)
      [] x.phase = "scan" /\ x.i < Len(x.filtered) -> ScanIter(x)
      [] x.phase = "scan" /\ x.i >= Len(x.filtered) -> ScanDone(x)
      [] x.phase = "exec" /\ x.pc < Len(x.filtered) -> ExecIter(x)
      [] x.phase = "exec" /\ x.pc >= Len(x.filtered) -> Finish(x)
      [] OTHER -> x

(* ------------------------------------------------------------------ *)
(* Observers of a run.  They read the run and never change it.         *)
(* ------------------------------------------------------------------ *)

(* The tape as the language defines it: a cell for every integer, all
   zero at the start, and a pointer that moves by one.  Only a window of
   it can ever be reached within MaxTape list cells. *)
Window == (0 - MaxTape)..MaxTape
LogicalStart(inbytes) ==
    [cells |-> [x \in Window |-> 0], ptr |-> 0, pc |-> 0,
     out |-> <<>>, in_buf |-> inbytes]

(* One instruction c of the language on the logical tape; jumps is the
   table of matching brackets. *)
LogicalIter(l, c, jumps) ==
    LET cell == l.cells[l.ptr]
        n == CASE c = GT -> [l EXCEPT !.ptr = l.ptr + 1]
               [] c = LT -> [l EXCEPT !.ptr = l.ptr - 1]
               [] c = PLUS -> [l EXCEPT !.cells[l.ptr] = (cell + 1) % 256]
               [] c = MINUS -> [l EXCEPT !.cells[l.ptr] = (cell + 255) % 256]
               [] c = DOT -> [l EXCEPT !.out = Append(l.out, cell)]
               [] c = COMMA ->
                    IF l.in_buf = <<>> THEN [l EXCEPT !.cells[l.ptr] = 0]
                    ELSE [l EXCEPT !.cells[l.ptr] = Head(l.in_buf),
                                   !.in_buf = Tail(l.in_buf)]
               [] c = LBRACKET ->
                    IF cell = 0 THEN [l EXCEPT !.pc = jumps[l.pc]] ELSE l
               [] c = RBRACKET ->
                    IF cell # 0 THEN [l EXCEPT !.pc = jumps[l.pc]] ELSE l
               [] OTHER -> l
    IN [n EXCEPT !.pc = n.pc + 1]

(* ------------------------------------------------------------------ *)
(* The state machine                                                   *)
(* ------------------------------------------------------------------ *)
VARIABLES
    m,      \* the frame of the call of run_brainfuck in progress
    fc,     \* the caller: which functions it composes, its argument, the
            \* value in between, the final value or the error raised
    sh,     \* observer: the frame of the same call on the stripped source
    lg,     \* observer: the logical tape machine, stepped with the run
    nin     \* observer: the number of ',' executed, counted up to
            \* len(inp) + 1

vars == <<m, fc, sh, lg, nin>>

SrcChars == BF_COMMANDS \cup {LETTER_A}
Sources == SeqsUpTo(SrcChars, MaxCodeLen)

(* The inputs: the prefixes of one stream of distinct bytes, and one input
   with a character that latin1 cannot encode. *)
InputStream == <<65, 255, 1, 66, 2, 67>>
WideInput == <<256>>
Inputs == {SubSeq(InputStream, 1, k) : k \in 0..MaxInpLen} \cup {WideInput}

(* Texts for encode_to_hex: NUL, 'A', the ends of the byte range and one
   code point beyond it. *)
TextChars == {0, 1, 65, 255, 256}
Texts == SeqsUpTo(TextChars, MaxTextLen)

(* Sources for brainfuck_to_hex: '+', newline, DEL and two non-ASCII
   characters. *)
CodecChars == {PLUS, 10, 127, 128, 233}
CodecSources == SeqsUpTo(CodecChars, MaxCodeLen)

(* Strings for hex_to_brainfuck: '2', 'b', 'B', 'f', space, newline and
   'g'; "2b" and "2B" are '+', "22" is '"', "b2" and "ff" are not ASCII. *)
HexChars == {50, 98, 66, 102, 32, 10, 103}
HexStrings == SeqsUpTo(HexChars, MaxHexLen)

(* S with every character outside "+-<>[].," removed. *)
Recognized == {PLUS, MINUS, LT, GT, LBRACKET, RBRACKET, DOT, COMMA}
StripNonBF(s) == SelectSeq(s, LAMBDA c : c \in Recognized)

(* The caller composes the functions named by fn on arg. *)
Caller(fn, arg) ==
    [fn |-> fn, phase |-> "start", arg |-> arg, mid |-> <<>>, out |-> <<>>,
     err |-> "none"]
NoCaller == [Caller("none", <<>>) EXCEPT !.phase = "done"]

(* After the first function returned r. *)
Between(f, r) ==
    IF r.ok THEN [f EXCEPT !.phase = "mid", !.mid = r.val]
    ELSE [f EXCEPT !.phase = "raised", !.err = r.err]

(* After the last function returned r. *)
Finally(f, r) ==
    IF r.ok THEN [f EXCEPT !.phase = "done", !.out = r.val]
    ELSE [f EXCEPT !.phase = "raised", !.err = r.err]

NoRun ==
    /\ m = NoCall
    /\ sh = NoCall
    /\ lg = LogicalStart(<<>>)
    /\ nin = 0

(* run_brainfuck(code, inp) has been called. *)
StartRun(code, inp) ==
    /\ m = Call(code, inp)
    /\ sh = Call(StripNonBF(code), inp)
    /\ lg = LogicalStart(<<>>)
    /\ nin = 0

(* run_brainfuck(code, inp) is called by a step. *)
CallRun(code, inp) ==
    /\ m' = Call(code, inp)
    /\ sh' = Call(StripNonBF(code), inp)
    /\ lg' = LogicalStart(<<>>)
    /\ nin' = 0

(* run_brainfuck(code, inp) called directly. *)
Init ==
    /\ fc = NoCaller
    /\ \E code \in Sources, inp \in Inputs : StartRun(code, inp)

(* decode_from_hex(encode_to_hex(text)) and text_to_brainfuck(text) *)
InitFacade ==
    /\ \E text \in Texts : \/ fc = Caller("encode_decode", text)
                            \/ fc = Caller("text_to_brainfuck", text)
    /\ NoRun

(* hex_to_brainfuck(brainfuck_to_hex(P)) and
   brainfuck_to_hex(hex_to_brainfuck(h)) *)
InitCodec ==
    /\ \/ \E P \in CodecSources : fc = Caller("to_hex_from_hex", P)
       \/ \E h \in HexStrings : fc = Caller("from_hex_to_hex", h)
    /\ NoRun

(* The observers follow a step of the run from m to n. *)
Observe(n) ==
    /\ sh' = RunStep(sh)
    /\ lg' = IF m.phase = "scan" /\ n.phase = "exec"
                THEN LogicalStart(n.in_buf)
             ELSE IF m.phase = "exec" /\ n.phase = "exec"
                THEN LogicalIter(lg, At(m.filtered, m.pc), m.jumps)
             ELSE lg
    /\ nin' = IF m.phase = "exec" /\ n.phase = "exec"
                 /\ At(m.filtered, m.pc) = COMMA /\ nin <= Len(m.inp)
              THEN nin + 1 ELSE nin

EnterRun ==
    /\ m.phase = "call"
    /\ m' = Enter(m)
    /\ Observe(m')
    /\ UNCHANGED fc

ScanStep ==
    /\ m.phase = "scan"
    /\ m.i < Len(m.filtered)
    /\ m' = ScanIter(m)
    /\ Observe(m')
    /\ UNCHANGED fc

ScanEnd ==
    /\ m.phase = "scan"
    /\ m.i >= Len(m.filtered)
    /\ m' = ScanDone(m)
    /\ Observe(m')
    /\ UNCHANGED fc

(* The next iteration would take the run beyond the bounds of the model:
   the model stops there, the program does not. *)
AtBound ==
    /\ m.phase = "exec"
    /\ m.pc < Len(m.filtered)
    /\ \/ Len(ExecIter(m).tape) > MaxTape
       \/ Len(ExecIter(m).out_chars) > MaxOut

ExecStep ==
    /\ m.phase = "exec"
    /\ m.pc < Len(m.filtered)
    /\ ~AtBound
    /\ m' = ExecIter(m)
    /\ Observe(m')
    /\ UNCHANGED fc

Return ==
    /\ m.phase = "exec"
    /\ m.pc >= Len(m.filtered)
    /\ m' = Finish(m)
    /\ Observe(m')
    /\ UNCHANGED fc

(* Lines 9-27: text_to_brainfuck(text), called on its own. *)
Generate ==
    /\ fc.fn = "text_to_brainfuck"
    /\ fc.phase = "start"
    /\ fc' = Finally(fc, Ok(text_to_brainfuck(fc.arg)))
    /\ UNCHANGED <<m, sh, lg, nin>>

(* Lines 103-104: encode_to_hex(text). *)
EncodeToHex ==
    /\ fc.fn = "encode_decode"
    /\ fc.phase = "start"
    /\ fc' = Between(fc, encode_to_hex(fc.arg))
    /\ UNCHANGED <<m, sh, lg, nin>>

(* Lines 109-110: decode_from_hex(hex_str) up to the call of
   run_brainfuck(bf), with no input. *)
DecodeFromHex ==
    /\ fc.fn = "encode_decode"
    /\ fc.phase = "mid"
    /\ LET r == hex_to_brainfuck(fc.mid) IN
       IF r.ok
       THEN /\ fc' = [fc EXCEPT !.phase = "run"]
            /\ CallRun(r.val, <<>>)
       ELSE /\ fc' = Finally(fc, r)
            /\ UNCHANGED <<m, sh, lg, nin>>

(* Line 110: decode_from_hex returns what run_brainfuck returned, or
   its exception passes through. *)
DecodeReturn ==
    /\ fc.fn = "encode_decode"
    /\ fc.phase = "run"
    /\ m.phase \in {"returned", "raised"}
    /\ fc' = Finally(fc, IF m.phase = "returned" THEN Ok(m.result)
                         ELSE Fail(m.err.kind))
    /\ UNCHANGED <<m, sh, lg, nin>>

(* brainfuck_to_hex(P) *)
ToHex ==
    /\ fc.fn = "to_hex_from_hex"
    /\ fc.phase = "start"
    /\ fc' = Between(fc, brainfuck_to_hex(fc.arg))
    /\ UNCHANGED <<m, sh, lg, nin>>

(* hex_to_brainfuck of what brainfuck_to_hex returned *)
FromHexBack ==
    /\ fc.fn = "to_hex_from_hex"
    /\ fc.phase = "mid"
    /\ fc' = Finally(fc, hex_to_brainfuck(fc.mid))
    /\ UNCHANGED <<m, sh, lg, nin>>

(* hex_to_brainfuck(h) *)
FromHex ==
    /\ fc.fn = "from_hex_to_hex"
    /\ fc.phase = "start"
    /\ fc' = Between(fc, hex_to_brainfuck(fc.arg))
    /\ UNCHANGED <<m, sh, lg, nin>>

(* brainfuck_to_hex of what hex_to_brainfuck returned *)
ToHexBack ==
    /\ fc.fn = "from_hex_to_hex"
    /\ fc.phase = "mid"
    /\ fc' = Finally(fc, brainfuck_to_hex(fc.mid))
    /\ UNCHANGED <<m, sh, lg, nin>>

Next == EnterRun \/ ScanStep \/ ScanEnd \/ ExecStep \/ Return

Spec == Init /\ [][Next]_vars

NextFacade == Generate \/ EncodeToHex \/ DecodeFromHex \/ DecodeReturn \/ Next

SpecFacade == InitFacade /\ [][NextFacade]_vars

NextCodec == ToHex \/ FromHexBack \/ FromHex \/ ToHexBack

SpecCodec == InitCodec /\ [][NextCodec]_vars

(* ------------------------------------------------------------------ *)
(* Bracket structure of a source, stated without the scan              *)
(* ------------------------------------------------------------------ *)
(* The number of positions in a..b (0-based) of s that hold c. *)
CountIn(s, c, a, b) == Cardinality({k \in a..b : k >= 0 /\ k < Len(s) /\ At(s, k) = c})

(* A ']' at k with no '[' left to match it: the closes up to k outnumber
   the opens. *)
CloseUnmatchedAt(s, k) ==
    /\ At(s, k) = RBRACKET
    /\ CountIn(s, RBRACKET, 0, k) > CountIn(s, LBRACKET, 0, k)

HasUnmatchedClose(s) == \E k \in 0..(Len(s) - 1) : CloseUnmatchedAt(s, k)

FirstUnmatchedClose(s) ==
    CHOOSE k \in 0..(Len(s) - 1) :
        /\ CloseUnmatchedAt(s, k)
        /\ \A j \in 0..(k - 1) : ~CloseUnmatchedAt(s, j)

(* A '[' at k that no later ']' closes: after k the closes never outnumber
   the opens. *)
OpenUnmatchedAt(s, k) ==
    /\ At(s, k) = LBRACKET
    /\ \A j \in (k + 1)..(Len(s) - 1) :
           CountIn(s, RBRACKET, k + 1, j) <= CountIn(s, LBRACKET, k + 1, j)

UnmatchedOpens(s) == {k \in 0..(Len(s) - 1) : OpenUnmatchedAt(s, k)}

Min(S) == CHOOSE x \in S : \A y \in S : x <= y
Max(S) == CHOOSE x \in S : \A y \in S : x >= y

Unbalanced(s) == HasUnmatchedClose(s) \/ UnmatchedOpens(s) # {}

BracketError(e) == e.kind \in {"UnmatchedClose", "UnmatchedOpen"}

ExecLocals == {"tape", "ptr", "pc", "out_chars", "in_buf"}

(* ------------------------------------------------------------------ *)
(* C1: for every text T whose characters all have code points in       *)
(* 0..255 (the empty text and texts with code point 0 included),       *)
(* decode_from_hex(encode_to_hex(T)) terminates and returns exactly T: *)
(* no step raises or stops at a bound of the model, every step leaves  *)
(* fewer steps to go, and the value returned at the end is T.          *)
(* ------------------------------------------------------------------ *)
ByteRange(t) == \A k \in 1..Len(t) : t[k] \in 0..255

(* The number of steps that a run of a program without loops has left,
   at most. *)
RunLeft(x) ==
    CASE x.phase = "call" -> 2 * Len(x.code) + 3
      [] x.phase = "scan" -> 2 * Len(x.filtered) - x.i + 2
      [] x.phase = "exec" -> Len(x.filtered) - x.pc + 1
      [] OTHER -> 0

(* The same for decode_from_hex(encode_to_hex(T)): the program for T has
   at most 256 instructions per character. *)
StepsLeft ==
    CASE fc.phase = "start" -> 3 * (256 * Len(fc.arg) + 3)
      [] fc.phase = "mid" -> 2 * (256 * Len(fc.arg) + 3)
      [] fc.phase = "run" -> RunLeft(m) + 1
      [] OTHER -> 0

C1_RoundTrip ==
    [][ (fc.fn = "encode_decode" /\ ByteRange(fc.arg)) =>
           /\ StepsLeft' < StepsLeft
           /\ fc'.phase # "raised"
           /\ m'.phase # "raised"
           /\ ~AtBound'
           /\ fc'.phase = "done" => fc'.out = fc.arg
      ]_vars

(* The text <<0, 255>> came back. *)
C1_Witness ==
    /\ fc.fn = "encode_decode"
    /\ fc.arg = <<0, 255>>
    /\ fc.phase = "done"
    /\ fc.out = <<0, 255>>

(* ------------------------------------------------------------------ *)
(* C2: a program whose filtered instructions have unbalanced brackets  *)
(* fails in bracket resolution, before any execution step: it never    *)
(* reaches the execution loop, and when the bracket error is raised no *)
(* tape, pointer, program counter, input buffer or output exists, no   *)
(* loop iteration has run and nothing is returned.                     *)
(* ------------------------------------------------------------------ *)
C2_NoExecutionOnBracketError ==
    /\ Unbalanced(StripNonBF(m.code)) =>
          /\ m.phase \in {"call", "scan", "raised"}
          /\ m.phase = "raised" => BracketError(m.err)
    /\ BracketError(m.err) =>
          /\ m.phase = "raised"
          /\ Unbalanced(StripNonBF(m.code))
          /\ ~m.ran
          /\ m.created \cap ExecLocals = {}
          /\ m.tape = <<>> /\ m.ptr = -1 /\ m.pc = -1
          /\ m.out_chars = <<>> /\ m.in_buf = <<>> /\ m.result = <<>>

(* "+.[" with input "A": the '+' and '.' before the bracket did nothing. *)
C2_Witness ==
    /\ m.code = <<PLUS, DOT, LBRACKET>>
    /\ m.inp = <<65>>
    /\ m.phase = "raised"
    /\ m.err.kind = "UnmatchedOpen"

(* ------------------------------------------------------------------ *)
(* C3: a ']' scanned with no pending '[' fails with an unmatched-close *)
(* error carrying that position in the filtered sequence; it is the    *)
(* first such ']' in scan order, also when unmatched '[' come later,   *)
(* and run("]") fails at position 0.                                   *)
(* ------------------------------------------------------------------ *)
C3_UnmatchedClosePosition ==
    LET s == StripNonBF(m.code) IN
    /\ HasUnmatchedClose(s) =>
          /\ m.phase \in {"call", "scan", "raised"}
          /\ m.phase = "raised" =>
                 m.err = Raise("UnmatchedClose", FirstUnmatchedClose(s))
    /\ m.err.kind = "UnmatchedClose" =>
          /\ HasUnmatchedClose(s)
          /\ m.err.pos = FirstUnmatchedClose(s)
    /\ (m.phase = "raised" /\ m.code = <<RBRACKET>>) =>
          m.err = Raise("UnmatchedClose", 0)

(* "a+][": the ']' is at 2 in the source and at 1 in the filtered
   sequence, and an unmatched '[' follows it. *)
C3_Witness ==
    /\ m.code = <<LETTER_A, PLUS, RBRACKET, LBRACKET>>
    /\ m.phase = "raised"
    /\ m.err = Raise("UnmatchedClose", 1)

(* ------------------------------------------------------------------ *)
(* C4 as stated: when the scan ends with '[' still pending, the        *)
(* unmatched-open error carries the position of the EARLIEST unmatched *)
(* open.                                                               *)
(* ------------------------------------------------------------------ *)
C4_EarliestUnmatchedOpen ==
    m.err.kind = "UnmatchedOpen" =>
        m.err.pos = Min(UnmatchedOpens(StripNonBF(m.code)))

(* C4 as amended: when the scan ends with '[' still pending, the
   unmatched-open error carries the position, in the filtered sequence, of
   the LAST unmatched open (the top of the stack): 1 for "[[". *)
C4_LastUnmatchedOpen ==
    LET s == StripNonBF(m.code) IN
    /\ (~HasUnmatchedClose(s) /\ UnmatchedOpens(s) # {}) =>
          /\ m.phase \in {"call", "scan", "raised"}
          /\ m.phase = "raised" =>
                 m.err = Raise("UnmatchedOpen", Max(UnmatchedOpens(s)))
    /\ m.err.kind = "UnmatchedOpen" =>
          /\ ~HasUnmatchedClose(s)
          /\ UnmatchedOpens(s) # {}
          /\ m.err.pos = Max(UnmatchedOpens(s))
    /\ (m.phase = "raised" /\ m.code = <<LBRACKET, LBRACKET>>) =>
          m.err = Raise("UnmatchedOpen", 1)

(* "[a[+": two unmatched opens, at 0 and 1 of the filtered sequence. *)
C4_Witness ==
    /\ m.code = <<LBRACKET, LETTER_A, LBRACKET, PLUS>>
    /\ m.phase = "raised"
    /\ m.err = Raise("UnmatchedOpen", 1)

(* ------------------------------------------------------------------ *)
(* C5: every tape cell always holds an integer in 0..255; '+' on 255   *)
(* gives 0, '-' on 0 gives 255, ',' stores a value in 0..255, and the  *)
(* program "-." returns the single byte 255.                           *)
(* ------------------------------------------------------------------ *)
CellsInRange(t) == \A k \in 1..Len(t) : t[k] \in 0..255

C5_CellsWrapInByteRange ==
    [][ /\ CellsInRange(m'.tape)
        /\ (m.phase = "exec" /\ m'.phase = "exec") =>
              LET c == At(m.filtered, m.pc)
                  old == At(m.tape, m.ptr)
                  new == At(m'.tape, m.ptr)
              IN /\ c = PLUS => new = (IF old = 255 THEN 0 ELSE old + 1)
                 /\ c = MINUS => new = (IF old = 0 THEN 255 ELSE old - 1)
                 /\ c = COMMA => new \in 0..255
        /\ (m'.phase = "returned" /\ m.filtered = <<MINUS, DOT>>) =>
              m'.result = <<255>>
      ]_vars

(* "-+.": the cell went 0 -> 255 -> 0 and 0 is returned. *)
C5_Witness ==
    /\ m.filtered = <<MINUS, PLUS, DOT>>
    /\ m.phase = "returned"
    /\ m.result = <<0>>

(* ------------------------------------------------------------------ *)
(* C6: the list tape with insert-at-front behaves as the tape indexed  *)
(* by all integers: stepping both side by side, list cell tape[ptr+k]  *)
(* equals the logical cell at (logical pointer + k) for every k inside *)
(* the list, the logical cells outside the list are zero, both have    *)
(* the same program counter, input left and output; '<' at pointer 0   *)
(* leaves the pointer at 0 on a new zero cell with the old cells one   *)
(* index higher, and "<+." returns the byte 1.                         *)
(* ------------------------------------------------------------------ *)
SameTape(x, l) ==
    LET off == l.ptr - x.ptr IN
    /\ \A k \in 0..(Len(x.tape) - 1) : At(x.tape, k) = l.cells[k + off]
    /\ \A y \in Window :
           (y < off \/ y > off + Len(x.tape) - 1) => l.cells[y] = 0
    /\ l.pc = x.pc
    /\ l.out = x.out_chars
    /\ l.in_buf = x.in_buf

C6_ListTapeIsTwoWayTape ==
    [][ /\ m'.phase \in {"exec", "returned"} => SameTape(m', lg')
        /\ (/\ m.phase = "exec" /\ m'.phase = "exec"
            /\ At(m.filtered, m.pc) = LT /\ m.ptr = 0) =>
              /\ m'.ptr = 0
              /\ m'.tape = <<0>> \o m.tape
        /\ (m'.phase = "returned" /\ m.filtered = <<LT, PLUS, DOT>>) =>
              m'.result = <<1>>
      ]_vars

(* "+<+.": the cell set to 1 moved to index 1 when the list grew left. *)
C6_Witness ==
    /\ m.code = <<PLUS, LT, PLUS, DOT>>
    /\ m.phase = "returned"
    /\ m.tape = <<1, 1>>
    /\ m.ptr = 0
    /\ lg.ptr = -1
    /\ m.result = <<1>>

(* ------------------------------------------------------------------ *)
(* C7: input bytes are consumed in order from the front: the k-th ','  *)
(* executed stores the k-th byte of the input when k <= len(input) and *)
(* 0 otherwise; no other instruction changes the input buffer, and a   *)
(* ',' removes at most one byte.                                       *)
(* ------------------------------------------------------------------ *)
C7_InputConsumedInOrder ==
    [][ LET bytes == Latin1Encode(m.inp)
            isInput == /\ m.phase = "exec" /\ m'.phase = "exec"
                       /\ At(m.filtered, m.pc) = COMMA
        IN /\ isInput =>
                /\ At(m'.tape, m'.ptr) =
                       (IF nin' <= Len(bytes) THEN bytes[nin'] ELSE 0)
                /\ \/ m'.in_buf = m.in_buf
                   \/ m.in_buf # <<>> /\ m'.in_buf = Tail(m.in_buf)
           /\ (m.phase = "exec" /\ ~isInput) => m'.in_buf = m.in_buf
           /\ m'.phase = "exec" =>
                m'.in_buf = SubSeq(bytes, Len(bytes) - Len(m'.in_buf) + 1,
                                   Len(bytes))
      ]_vars

(* ",,," on input <<65, 255>>: the third ',' stored 0. *)
C7_Witness ==
    /\ m.code = <<COMMA, COMMA, COMMA>>
    /\ m.inp = <<65, 255>>
    /\ m.phase = "exec"
    /\ m.pc = 3
    /\ nin = 3
    /\ m.tape = <<0>>

(* ------------------------------------------------------------------ *)
(* C8: characters outside "+-<>[].," have no effect: run on a source S *)
(* and run on S with those characters removed have the same outcome    *)
(* (the same output, or the same bracket error at the same position),  *)
(* and bracket positions, the jump table and the program counter index *)
(* the filtered sequence, not the source.                              *)
(* ------------------------------------------------------------------ *)
C8_OtherCharactersAreInert ==
    LET s == StripNonBF(m.code) IN
    /\ sh.code = s
    /\ sh.phase = m.phase
    /\ sh.err = m.err
    /\ sh.out_chars = m.out_chars
    /\ sh.result = m.result
    /\ sh.pc = m.pc
    /\ sh.jumps = m.jumps
    /\ m.phase = "exec" => m.pc \in 0..Len(s)
    /\ BracketError(m.err) =>
          /\ m.err.pos \in 0..(Len(s) - 1)
          /\ At(s, m.err.pos) \in {LBRACKET, RBRACKET}
    /\ \A k \in DOMAIN m.jumps :
          /\ k \in 0..(Len(s) - 1)
          /\ At(s, k) \in {LBRACKET, RBRACKET}

(* "a[a]": the brackets are at 1 and 3 of the source and at 0 and 1 of
   the filtered sequence. *)
C8_Witness ==
    /\ m.code = <<LETTER_A, LBRACKET, LETTER_A, RBRACKET>>
    /\ m.phase = "returned"
    /\ m.jumps = DictSet(DictSet(EmptyDict, 0, 1), 1, 0)
    /\ m.pc = 2

(* ------------------------------------------------------------------ *)
(* Hex strings, stated without the parser                              *)
(* ------------------------------------------------------------------ *)
IsHexDigitChar(c) == c \in (48..57) \cup (97..102) \cup (65..70)

(* The value of a hex digit character of either case. *)
HexVal(c) == IF c <= 57 THEN c - 48 ELSE IF c >= 97 THEN c - 87 ELSE c - 55

(* The byte sequence that the digit pairs of h denote, for h made of hex
   digits only and of even length. *)
PairBytes(h) ==
    [j \in 1..(Len(h) \div 2) |-> 16 * HexVal(h[2 * j - 1]) + HexVal(h[2 * j])]

AsciiWhitespace == {9, 10, 11, 12, 13, 32}

(* h with its ASCII whitespace removed. *)
Unspaced(h) == SelectSeq(h, LAMBDA c : c \notin AsciiWhitespace)

(* No whitespace stands between the two digits of a pair: every
   whitespace character has an even number of other characters before
   it. *)
SpacesBetweenPairs(h) ==
    \A k \in 1..Len(h) :
        h[k] \in AsciiWhitespace =>
            Len(Unspaced(SubSeq(h, 1, k))) % 2 = 0

FromHexCalled == fc.fn = "from_hex_to_hex" /\ fc.phase # "start"

(* ------------------------------------------------------------------ *)
(* C9 as stated: hex_to_brainfuck fails, with no partial result, for   *)
(* every string of odd length or with a character outside [0-9a-fA-F]  *)
(* (whitespace included), and for every other string it succeeds and   *)
(* returns the bytes that the digit pairs denote.                      *)
(* ------------------------------------------------------------------ *)
C9_FailsOnOddLengthOrNonHex ==
    FromHexCalled =>
        LET h == fc.arg
            bad == \/ Len(h) % 2 = 1
                   \/ \E k \in 1..Len(h) : ~IsHexDigitChar(h[k])
        IN IF bad THEN fc.phase = "raised" /\ fc.mid = <<>>
           ELSE fc.phase # "raised" /\ fc.mid = PairBytes(h)

(* C9 as amended: hex_to_brainfuck skips ASCII whitespace that stands
   before a digit pair or at the end.  It fails, with no partial result,
   when what is left has odd length or a character outside [0-9a-fA-F],
   when whitespace stands between the two digits of a pair, or when a
   pair denotes a byte above 0x7f; for every other string it succeeds
   and returns the characters whose code points the pairs denote, in
   either case of the digits. *)
C9_FailsOnBadPairsOrNonAscii ==
    FromHexCalled =>
        LET h == fc.arg
            u == Unspaced(h)
            wellFormed == /\ Len(u) % 2 = 0
                          /\ \A k \in 1..Len(u) : IsHexDigitChar(u[k])
                          /\ SpacesBetweenPairs(h)
            good == wellFormed /\ \A j \in 1..(Len(u) \div 2) : PairBytes(u)[j] <= 127
        IN IF good THEN fc.phase # "raised" /\ fc.mid = PairBytes(u)
           ELSE fc.phase = "raised" /\ fc.mid = <<>> /\ fc.out = <<>>

(* " 2B\n" decoded to "+": whitespace skipped, upper case accepted. *)
C9_Witness ==
    /\ fc.fn = "from_hex_to_hex"
    /\ fc.arg = <<32, 50, 66, 10>>
    /\ fc.phase = "mid"
    /\ fc.mid = <<PLUS>>

(* ------------------------------------------------------------------ *)
(* C10 as stated: for every program-source string P,                   *)
(* brainfuck_to_hex(P) succeeds and                                    *)
(* hex_to_brainfuck(brainfuck_to_hex(P)) = P.                          *)
(* ------------------------------------------------------------------ *)
C10_ToHexTotalAndInverted ==
    fc.fn = "to_hex_from_hex" =>
        /\ fc.phase # "raised"
        /\ fc.phase = "done" => fc.out = fc.arg

(* C10 as amended: for every program-source string P whose characters
   are all ASCII (code points 0..127), brainfuck_to_hex(P) succeeds, with
   two hex digits per character, and
   hex_to_brainfuck(brainfuck_to_hex(P)) = P; for a P with a character
   above 127 brainfuck_to_hex(P) fails with an encoding error. *)
C10_AsciiToHexInverted ==
    fc.fn = "to_hex_from_hex" =>
        IF \A k \in 1..Len(fc.arg) : fc.arg[k] \in 0..127
        THEN /\ fc.phase # "raised"
             /\ fc.phase \in {"mid", "done"} =>
                   /\ Len(fc.mid) = 2 * Len(fc.arg)
                   /\ \A k \in 1..Len(fc.mid) : IsHexDigitChar(fc.mid[k])
             /\ fc.phase = "done" => fc.out = fc.arg
        ELSE /\ fc.phase \in {"start", "raised"}
             /\ fc.phase = "raised" =>
                   fc.err = "UnicodeEncodeError" /\ fc.mid = <<>>

(* "+\n\x7f" came back from its hex form "2b0a7f". *)
C10_Witness ==
    /\ fc.fn = "to_hex_from_hex"
    /\ fc.arg = <<PLUS, 10, 127>>
    /\ fc.mid = <<50, 98, 48, 97, 55, 102>>
    /\ fc.phase = "done"
    /\ fc.out = fc.arg

(* h with its upper-case letters 'A'..'Z' made lower case. *)
Lower(h) == [k \in 1..Len(h) |-> IF h[k] \in 65..90 THEN h[k] + 32 ELSE h[k]]

HexDigitsEvenLength(h) ==
    /\ Len(h) % 2 = 0
    /\ \A k \in 1..Len(h) : IsHexDigitChar(h[k])

(* ------------------------------------------------------------------ *)
(* C11 as stated: for every even-length string h of hex digits, every  *)
(* byte value 00..ff included, hex_to_brainfuck(h) succeeds and        *)
(* brainfuck_to_hex(hex_to_brainfuck(h)) is h in lower case.           *)
(* ------------------------------------------------------------------ *)
C11_FromHexToHexIsLower ==
    (fc.fn = "from_hex_to_hex" /\ HexDigitsEvenLength(fc.arg)) =>
        /\ fc.phase # "raised"
        /\ fc.phase = "done" => fc.out = Lower(fc.arg)

(* C11 as amended: for every even-length string h of hex digits whose
   pairs all denote bytes 00..7f, hex_to_brainfuck(h) succeeds and
   brainfuck_to_hex(hex_to_brainfuck(h)) is h in lower case; when a pair
   denotes a byte 80..ff, hex_to_brainfuck(h) fails with a decoding error
   and nothing is returned. *)
C11_AsciiFromHexToHexIsLower ==
    (fc.fn = "from_hex_to_hex" /\ HexDigitsEvenLength(fc.arg)) =>
        IF \A j \in 1..(Len(fc.arg) \div 2) : PairBytes(fc.arg)[j] <= 127
        THEN /\ fc.phase # "raised"
             /\ fc.phase = "done" => fc.out = Lower(fc.arg)
        ELSE /\ fc.phase \in {"start", "raised"}
             /\ fc.phase = "raised" =>
                   /\ fc.err = "UnicodeDecodeError"
                   /\ fc.mid = <<>>
                   /\ fc.out = <<>>

(* "2B2b" came back as "2b2b". *)
C11_Witness ==
    /\ fc.fn = "from_hex_to_hex"
    /\ fc.arg = <<50, 66, 50, 98>>
    /\ fc.phase = "done"
    /\ fc.mid = <<PLUS, PLUS>>
    /\ fc.out = <<50, 98, 50, 98>>

(* ------------------------------------------------------------------ *)
(* The generated program, stated without the generator                 *)
(* ------------------------------------------------------------------ *)
Abs(x) == IF x < 0 THEN 0 - x ELSE x

(* The code point before character k of t, 0 before the first. *)
Prev(t, k) == IF k = 1 THEN 0 ELSE t[k - 1]

(* The index (from 1) in the program of the output symbol of character k
   of t: each character takes |difference| symbols and one output
   symbol. *)
RECURSIVE DotPos(_, _)
DotPos(t, k) ==
    IF k = 0 THEN 0 ELSE DotPos(t, k - 1) + Abs(t[k] - Prev(t, k)) + 1

(* ------------------------------------------------------------------ *)
(* C12: for every text of byte-range characters text_to_brainfuck      *)
(* succeeds and returns a program of '+', '-' and '.' only: for each   *)
(* character in order |code point - previous code point| increments    *)
(* (difference positive) or decrements (negative), previous starting   *)
(* at 0, then exactly one '.'; there are as many '.' as characters.    *)
(* ------------------------------------------------------------------ *)
C12_GeneratedProgramShape ==
    (fc.fn = "text_to_brainfuck" /\ ByteRange(fc.arg)) =>
        /\ fc.phase # "raised"
        /\ fc.phase = "done" =>
              LET t == fc.arg
                  p == fc.out
              IN /\ Len(p) = DotPos(t, Len(t))
                 /\ \A i \in 1..Len(p) : p[i] \in {PLUS, MINUS, DOT}
                 /\ Cardinality({i \in 1..Len(p) : p[i] = DOT}) = Len(t)
                 /\ \A k \in 1..Len(t) :
                       /\ p[DotPos(t, k)] = DOT
                       /\ \A i \in (DotPos(t, k - 1) + 1)..(DotPos(t, k) - 1) :
                             p[i] = IF t[k] > Prev(t, k) THEN PLUS ELSE MINUS

(* "A\x01": 65 increments, '.', 64 decrements, '.'. *)
C12_Witness ==
    /\ fc.fn = "text_to_brainfuck"
    /\ fc.arg = <<65, 1>>
    /\ fc.phase = "done"
    /\ Len(fc.out) = 131
    /\ fc.out[65] = PLUS
    /\ fc.out[66] = DOT
    /\ fc.out[67] = MINUS
    /\ fc.out[131] = DOT

(* ------------------------------------------------------------------ *)
(* C13: in every execution state of run_brainfuck the pointer is a     *)
(* valid index of the tape, 0 <= ptr < len(tape), so that no           *)
(* instruction reads or writes a cell outside the tape.                *)
(* ------------------------------------------------------------------ *)
C13_PointerIsValidIndex ==
    "tape" \in m.created =>
        /\ m.ptr >= 0
        /\ m.ptr < Len(m.tape)

(* The pointer stands at the last of three cells after two moves to the
   right past the end. *)
C13_Witness ==
    /\ m.phase = "exec"
    /\ m.ran
    /\ Len(m.tape) = 3
    /\ m.ptr = 2
    /\ m.pc = 2
    /\ At(m.filtered, 0) = GT
    /\ At(m.filtered, 1) = GT

(* ------------------------------------------------------------------ *)
(* C14: the tape starts as one cell holding 0 and never gets shorter:   *)
(* an execution step keeps its length or adds exactly one cell; a cell *)
(* is added only by '>' at the last cell (at the end) or by '<' at     *)
(* pointer 0 (at the front), the new cell holds 0 and the cells that   *)
(* were there keep their values.                                       *)
(* ------------------------------------------------------------------ *)
C14_TapeGrowsByOneZeroCell ==
    [][ /\ (m.phase = "scan" /\ m'.phase = "exec") => m'.tape = <<0>>
        /\ (m.phase = "exec" /\ m'.phase = "exec") =>
              LET c == At(m.filtered, m.pc) IN
              IF c = GT /\ m.ptr = Len(m.tape) - 1
                  THEN m'.tape = m.tape \o <<0>>
              ELSE IF c = LT /\ m.ptr = 0
                  THEN m'.tape = <<0>> \o m.tape
              ELSE Len(m'.tape) = Len(m.tape)
        /\ (m.phase = "exec" /\ m'.phase = "returned") => m'.tape = m.tape
      ]_vars

(* "+<>>": the cell holding 1 got a zero cell on either side. *)
C14_Witness ==
    /\ m.phase = "exec"
    /\ m.tape = <<0, 1, 0>>
    /\ m.ptr = 2
    /\ m.filtered = <<PLUS, LT, GT, GT>>
    /\ m.pc = 4

(* ------------------------------------------------------------------ *)
(* C15: for every well-bracketed filtered program the jump table has    *)
(* exactly the bracket positions as keys and is an involution without  *)
(* fixed point on them: each '[' at i maps to a ']' after i and back,  *)
(* no two brackets share a partner, and the pairs are nested (for      *)
(* pairs (a,b), (c,d) with a < c, either b < c or d < b).              *)
(* ------------------------------------------------------------------ *)
C15_JumpTableIsNestedInvolution ==
    "tape" \in m.created =>
        LET f == m.filtered
            J == m.jumps
            B == {k \in 0..(Len(f) - 1) : At(f, k) \in {LBRACKET, RBRACKET}}
            Opens == {k \in B : At(f, k) = LBRACKET}
        IN /\ DOMAIN J = B
           /\ \A i \in B :
                 /\ J[i] \in B
                 /\ J[i] # i
                 /\ J[J[i]] = i
                 /\ At(f, i) = LBRACKET => At(f, J[i]) = RBRACKET /\ J[i] > i
                 /\ At(f, i) = RBRACKET => At(f, J[i]) = LBRACKET /\ J[i] < i
           /\ \A i, j \in B : J[i] = J[j] => i = j
           /\ \A a, c \in Opens : a < c => (J[a] < c \/ J[c] < J[a])

(* "[[]]" passed the scan: 0 pairs with 3 and 1 with 2. *)
C15_Witness ==
    /\ m.phase = "exec"
    /\ m.filtered = <<LBRACKET, LBRACKET, RBRACKET, RBRACKET>>
    /\ m.jumps[0] = 3
    /\ m.jumps[1] = 2
    /\ m.jumps[2] = 1
    /\ m.jumps[3] = 0

(* ------------------------------------------------------------------ *)
(* C16: a '[' at i executed on a zero cell continues at jumps[i] + 1,   *)
(* after the matching ']' (or ends the run); a ']' at j executed on a  *)
(* nonzero cell continues at jumps[j] + 1, the first instruction after *)
(* the matching '['; every other step advances the program counter by  *)
(* exactly 1; a bracket changes nothing but the program counter.       *)
(* ------------------------------------------------------------------ *)
C16_JumpSteps ==
    [][ (m.phase = "exec" /\ m.pc < Len(m.filtered)) =>
           LET c == At(m.filtered, m.pc)
               cell == At(m.tape, m.ptr)
               taken == \/ c = LBRACKET /\ cell = 0
                        \/ c = RBRACKET /\ cell # 0
           IN /\ m'.phase = "exec"
              /\ m'.pc = IF taken THEN m.jumps[m.pc] + 1 ELSE m.pc + 1
              /\ (taken /\ c = LBRACKET) =>
                    /\ m'.pc > m.pc + 1
                    /\ At(m.filtered, m'.pc - 1) = RBRACKET
                    /\ m'.pc <= Len(m.filtered)
              /\ (taken /\ c = RBRACKET) =>
                    /\ m'.pc <= m.pc
                    /\ At(m.filtered, m'.pc - 1) = LBRACKET
              /\ c \in {LBRACKET, RBRACKET} =>
                    m' = [m EXCEPT !.pc = m'.pc, !.ran = TRUE]
      ]_vars

(* "+[+]": the ']' found the cell at 2 and went back to position 2, the
   first instruction of the loop body. *)
C16_Witness ==
    /\ m.phase = "exec"
    /\ m.filtered = <<PLUS, LBRACKET, PLUS, RBRACKET>>
    /\ m.tape = <<2>>
    /\ m.pc = 2

(* ------------------------------------------------------------------ *)
(* C17: the execution of run_brainfuck ends exactly when the program    *)
(* counter is at or beyond the number of filtered instructions, and    *)
(* for no other reason; so a program without brackets executes its n   *)
(* instructions once each, in order, the program counter going from 0  *)
(* to n by one, and then returns, for every input.                     *)
(* ------------------------------------------------------------------ *)
JumpFree(f) == \A k \in 1..Len(f) : f[k] \notin {LBRACKET, RBRACKET}

C17_EndsOnlyAtProgramEnd ==
    [][ /\ m.phase = "exec" =>
              /\ m'.phase \in {"exec", "returned"}
              /\ (m'.phase = "returned") <=> (m.pc >= Len(m.filtered))
        /\ (m.phase = "scan" /\ m'.phase = "exec") => m'.pc = 0
        /\ (m.phase = "exec" /\ JumpFree(m.filtered)) =>
              /\ m.pc <= Len(m.filtered)
              /\ ~AtBound
              /\ m'.phase = "exec" =>
                    /\ m'.pc = m.pc + 1
                    /\ m' = [ExecIter(m) EXCEPT !.pc = m.pc + 1]
              /\ m'.phase = "returned" => m'.pc = Len(m.filtered)
      ]_vars

(* ",.>." on input <<65, 255>> returned after its fourth instruction. *)
C17_Witness ==
    /\ m.phase = "returned"
    /\ m.filtered = <<COMMA, DOT, GT, DOT>>
    /\ m.inp = <<65, 255>>
    /\ m.pc = 4
    /\ m.result = <<65, 0>>

(* ------------------------------------------------------------------ *)
(* C18: there is no step bound and no halt instruction: the program    *)
(* "+[]", whose loop condition never becomes zero, never reaches the   *)
(* terminated state; its program counter stays within the program      *)
(* forever and no result is returned.                                  *)
(* ------------------------------------------------------------------ *)
PlusLoop == <<PLUS, LBRACKET, RBRACKET>>

C18_PlusLoopNeverTerminates ==
    (Filter(m.code) = PlusLoop /\ Latin1Ok(m.inp)) =>
        /\ m.phase \in {"call", "scan", "exec"}
        /\ m.result = <<>>
        /\ m.phase = "exec" =>
              /\ m.pc \in 0..2
              /\ ~AtBound
              /\ RunStep(m).phase = "exec"
              /\ m.pc = 2 => RunStep(m) = m

(* "+[a]" is in its loop: the cell holds 1 and the ']' is next, again. *)
C18_Witness ==
    /\ m.code = <<PLUS, LBRACKET, LETTER_A, RBRACKET>>
    /\ m.filtered = PlusLoop
    /\ m.phase = "exec"
    /\ m.pc = 2
    /\ m.tape = <<1>>
    /\ RunStep(m) = m

(* ------------------------------------------------------------------ *)
(* C19: the output is append-only: it grows by exactly one element on  *)
(* each '.' executed, the value of the current cell at that moment,    *)
(* and by nothing on any other instruction; a '.' leaves tape, pointer *)
(* and input buffer unchanged; the result returned is the whole        *)
(* sequence in the order of execution.                                 *)
(* ------------------------------------------------------------------ *)
C19_OutputAppendOnly ==
    [][ /\ (m.phase = "scan" /\ m'.phase = "exec") => m'.out_chars = <<>>
        /\ (m.phase = "exec" /\ m'.phase = "exec") =>
              IF At(m.filtered, m.pc) = DOT
              THEN /\ m'.out_chars = m.out_chars \o <<At(m.tape, m.ptr)>>
                   /\ m'.tape = m.tape
                   /\ m'.ptr = m.ptr
                   /\ m'.in_buf = m.in_buf
              ELSE m'.out_chars = m.out_chars
        /\ (m.phase = "exec" /\ m'.phase = "returned") =>
              /\ m'.out_chars = m.out_chars
              /\ m'.result = m.out_chars
      ]_vars

(* "+.+." returned "\x01\x02". *)
C19_Witness ==
    /\ m.phase = "returned"
    /\ m.filtered = <<PLUS, DOT, PLUS, DOT>>
    /\ m.result = <<1, 2>>

(* ------------------------------------------------------------------ *)
(* C20: a text with a character above code point 255 is never wrapped  *)
(* silently: decode_from_hex(encode_to_hex(T)) fails or returns T, and *)
(* never succeeds with another text (the character 256 must not come   *)
(* back as the character 0).                                           *)
(* ------------------------------------------------------------------ *)
C20_NoSilentWrap ==
    (fc.fn = "encode_decode" /\ ~ByteRange(fc.arg) /\ fc.phase = "done") =>
        fc.out = fc.arg

====
